---- MODULE Spec2Model ----
(***************************************************************************)
(* imv::Model / imv::Index (src/src/model.hpp).                            *)
(*                                                                         *)
(* The state is one Model object ("this", identity ThisModel) backed by a  *)
(* flat table subclass, the signals it has emitted, and the call stack of  *)
(* the public calls in progress.  Public calls made while a call is in     *)
(* progress are the calls an onMoveRows / onMoveColumns override makes.    *)
(***************************************************************************)
EXTENDS Integers, Sequences, FiniteSets, TLC

VARIABLES
    moving_,    \* Model::moving_ (a bool)
    rows,       \* top-level row count of the backing table (onRowCount)
    cols,       \* top-level column count of the backing table (onColumnCount)
    stack,      \* moveRows / moveColumns calls whose hook is running
    signals,    \* signals emitted since the outermost call in progress began
    ret,        \* the public call that returned last
    qstack,     \* valid / parent / data / setData calls in progress
    qret,       \* value returned by the callee that has just returned
    nestedCalls, \* calls made so far by the hooks of the outermost call
    crashed     \* the process has been terminated (stack exhausted)

vars == <<moving_, rows, cols, stack, signals, ret, nestedCalls, qstack, qret, crashed>>

-----------------------------------------------------------------------------
(* Bounds of the model *)

MaxRows == 2
MaxNested == 2
StackLimit == 4

MaxCols == MaxRows - 1
MaxCount == MaxRows + 1

-----------------------------------------------------------------------------
(* Program constants *)

Nothing == 0
Rows == 1
Columns == 2
IntBits == 32

NullModel == "null"
ThisModel == "this"
OtherModel == "other"

-----------------------------------------------------------------------------
(* Index *)

Index(row, column, id, model) ==
    [row |-> row, column |-> column, id |-> id, model |-> model]

DefaultIndex == Index(-1, -1, 0, NullModel)

IndexEq(a, b) ==
    a.row = b.row /\ a.column = b.column /\ a.id = b.id /\ a.model = b.model

createIndex(row, column, id) == Index(row, column, id, ThisModel)

-----------------------------------------------------------------------------
(* int arithmetic behind the compound assignments on moving_: an int is   *)
(* the set of the positions of its 1 bits in two's complement, bit 0 the   *)
(* least significant of IntBits.                                           *)

\* the int with the value n, for an enumerator or a promoted bool (0 <= n < 4)
IntOf(n) == {i \in 0 .. 1 : (n \div (2 ^ i)) % 2 = 1}

BitAnd(a, b) == a \cap b
BitOr(a, b) == a \cup b
BitNot(a) == (0 .. (IntBits - 1)) \ a

\* bool to int (integral promotion) and int to bool (boolean conversion)
BoolToInt(b) == IntOf(IF b THEN 1 ELSE 0)
IntToBool(a) == a # {}

-----------------------------------------------------------------------------
(* The backing subclass: a flat table.  Only the top level (a parent with  *)
(* no row) has rows and columns.                                           *)

onRowCount(parent) == IF parent.row < 0 THEN rows ELSE 0

onColumnCount(parent) == IF parent.row < 0 THEN cols ELSE 0

\* rows left once the existing rows of [row, row+count-1] are gone
onRemoveRows(row, count, parent) ==
    LET last == IF row + count < rows THEN row + count ELSE rows
        gone == IF last > row THEN last - row ELSE 0
    IN  IF parent.row < 0 THEN rows - gone ELSE rows

onRemoveColumns(column, count, parent) ==
    LET last == IF column + count < cols THEN column + count ELSE cols
        gone == IF last > column THEN last - column ELSE 0
    IN  IF parent.row < 0 THEN cols - gone ELSE cols

-----------------------------------------------------------------------------
(* Model: bounds checks *)

rowCount(parent) == onRowCount(parent)

columnCount(parent) == onColumnCount(parent)

\* mutation: the row after the last one is not a valid row
validRowExclusive(row, parent) == row >= 0 /\ row < rowCount(parent)

validRow(row, parent) == row >= 0 /\ row <= rowCount(parent)

validColumn(column, parent) == column >= 0 /\ column <= columnCount(parent)

-----------------------------------------------------------------------------
(* Model: the moving flag.  moving_ is a bool: each compound assignment    *)
(* promotes it to int, combines it with the enumerator and converts the    *)
(* int back to bool.                                                       *)

\* mutation: beginMoveRows leaves the flag alone
beginMoveRowsNoop(m) == m

beginMoveRows(m) == IntToBool(BitOr(BoolToInt(m), IntOf(Rows)))

beginMoveColumns(m) == IntToBool(BitOr(BoolToInt(m), IntOf(Columns)))

\* mutation: endMoveRows leaves the flag alone
endMoveRowsFlagKept(m) == m

endMoveRowsFlag(m) == IntToBool(BitAnd(BoolToInt(m), BitNot(IntOf(Rows))))

endMoveColumnsFlag(m) == IntToBool(BitAnd(BoolToInt(m), BitNot(IntOf(Columns))))

\* the condition  moving_ & Rows
movingRows(m) == IntToBool(BitAnd(BoolToInt(m), IntOf(Rows)))

\* the condition  moving_ & Columns
movingColumns(m) == IntToBool(BitAnd(BoolToInt(m), IntOf(Columns)))

-----------------------------------------------------------------------------
(* Signals *)

rowsRemoved(row, count, parent) ==
    [sig |-> "rowsRemoved", args |-> <<row, count, parent>>]

columnsRemoved(column, count, parent) ==
    [sig |-> "columnsRemoved", args |-> <<column, count, parent>>]

\* mutation: rowsMoved carries the destination in place of the source
rowsMovedSwapped(from_parent, from_row, count, to_parent, to_row) ==
    [sig |-> "rowsMoved", args |-> <<to_parent, to_row, count, from_parent, from_row>>]

rowsMoved(from_parent, from_row, count, to_parent, to_row) ==
    [sig |-> "rowsMoved", args |-> <<from_parent, from_row, count, to_parent, to_row>>]

columnsMoved(from_parent, from_column, count, to_parent, to_column) ==
    [sig |-> "columnsMoved",
     args |-> <<from_parent, from_column, count, to_parent, to_column>>]

-----------------------------------------------------------------------------
(* Arguments the callers pass.  The application passes anything; a running *)
(* move hook passes on the source range it was handed.                     *)

ItemIndex == createIndex(0, 0, 0)

Parents == {DefaultIndex, ItemIndex}

\* every row (column) of parent from one below to one past what validRow
\* (validColumn) accepts
RowArgs(parent) == -1 .. (rowCount(parent) + 1)
ColumnArgs(parent) == -1 .. (columnCount(parent) + 1)
CountArgs == 0 .. MaxCount
Dests == {<<ItemIndex, MaxRows + 2>>}

HookRanges(f) ==
    {<<f.args[2], f.args[3], f.args[1]>>}

HookMoves(f) ==
    {f.args}

RemoveRowsArgs ==
    IF stack = <<>>
    THEN UNION {{<<r, n, p>> : r \in RowArgs(p), n \in CountArgs} : p \in Parents}
    ELSE HookRanges(stack[Len(stack)])

RemoveColumnsArgs ==
    IF stack = <<>>
    THEN UNION {{<<c, n, p>> : c \in ColumnArgs(p), n \in CountArgs} :
                    p \in Parents}
    ELSE HookRanges(stack[Len(stack)])

MoveRowsArgs ==
    IF stack = <<>>
    THEN UNION {{<<fp, r, n, d[1], d[2]>> :
                        r \in RowArgs(fp), n \in CountArgs, d \in Dests} :
                    fp \in Parents}
    ELSE HookMoves(stack[Len(stack)])

MoveColumnsArgs ==
    IF stack = <<>>
    THEN UNION {{<<fp, c, n, d[1], d[2]>> :
                        c \in ColumnArgs(fp), n \in CountArgs, d \in Dests} :
                    fp \in Parents}
    ELSE HookMoves(stack[Len(stack)])

-----------------------------------------------------------------------------
(* Call bookkeeping *)

NoCall ==
    [op |-> "none", args |-> <<>>, result |-> FALSE, emitted |-> <<>>,
     hooked |-> FALSE, hookOk |-> FALSE, ctx |-> <<>>, before |-> FALSE,
     after |-> FALSE, nested |-> FALSE, removes |-> 0, limit |-> 0]

\* the operations whose hooks are running, outermost first
Ctx(stk) == [i \in 1 .. Len(stk) |-> stk[i].op]

\* a public call can be made by the application, or by a running move hook
CanCall ==
    /\ ~crashed
    /\ qstack = <<>>
    /\ stack # <<>> => nestedCalls < MaxNested

\* the signal log restarts with every outermost call
Enter == IF stack = <<>> THEN <<>> ELSE signals

\* calls made by the hooks of the outermost call in progress, this one included
Counted == IF stack = <<>> THEN 0 ELSE nestedCalls + 1

\* the running hook has called moveRows or moveColumns
Called(stk) ==
    IF stk = <<>> THEN stk ELSE [stk EXCEPT ![Len(stk)].nested = TRUE]

\* the running hook has called removeRows, which returned ok
Removed(stk, ok) ==
    IF stk = <<>> \/ ~ok THEN stk ELSE [stk EXCEPT ![Len(stk)].removes = @ + 1]

\* the running hook has called moveRows or moveColumns before
HookNested == IF stack = <<>> THEN FALSE ELSE stack[Len(stack)].nested

-----------------------------------------------------------------------------
(* Model::removeRows *)

\* mutation: removeRows does not check count
removeRowsPreNoCount(row, count, parent) ==
    validRow(row, parent) /\ validRow(row + count - 1, parent)

\* mutation: removeRows does not check the last row of the range
removeRowsPreNoEnd(row, count, parent) ==
    count > 0 /\ validRow(row, parent)

removeRowsPre(row, count, parent) ==
    count > 0 /\ validRow(row, parent) /\ validRow(row + count - 1, parent)

RemoveRows(row, count, parent, accept) ==
    LET pre == removeRowsPre(row, count, parent)
        ok == pre /\ accept
        em == IF ok /\ ~movingRows(moving_)
              THEN <<rowsRemoved(row, count, parent)>> ELSE <<>>
    IN  /\ CanCall
        /\ ~pre => ~accept
        /\ rows' = IF ok THEN onRemoveRows(row, count, parent) ELSE rows
        /\ signals' = Enter \o em
        /\ stack' = Removed(stack, ok)
        /\ nestedCalls' = Counted
        /\ ret' = [op |-> "removeRows", args |-> <<row, count, parent>>,
                   result |-> ok, emitted |-> em, hooked |-> pre,
                   hookOk |-> ok, ctx |-> Ctx(stack), before |-> moving_,
                   after |-> moving_, nested |-> HookNested, removes |-> 0,
                   limit |-> rowCount(parent)]
        /\ UNCHANGED <<moving_, cols, qstack, qret, crashed>>

(* Model::removeColumns *)

removeColumnsPre(column, count, parent) ==
    count > 0 /\ validColumn(column, parent)
              /\ validColumn(column + count - 1, parent)

RemoveColumns(column, count, parent, accept) ==
    LET pre == removeColumnsPre(column, count, parent)
        ok == pre /\ accept
        em == IF ok /\ ~movingColumns(moving_)
              THEN <<columnsRemoved(column, count, parent)>> ELSE <<>>
    IN  /\ CanCall
        /\ ~pre => ~accept
        /\ cols' = IF ok THEN onRemoveColumns(column, count, parent) ELSE cols
        /\ signals' = Enter \o em
        /\ stack' = stack
        /\ nestedCalls' = Counted
        /\ ret' = [op |-> "removeColumns", args |-> <<column, count, parent>>,
                   result |-> ok, emitted |-> em, hooked |-> pre,
                   hookOk |-> ok, ctx |-> Ctx(stack), before |-> moving_,
                   after |-> moving_, nested |-> HookNested, removes |-> 0,
                   limit |-> columnCount(parent)]
        /\ UNCHANGED <<moving_, rows, qstack, qret, crashed>>

-----------------------------------------------------------------------------
(* Model::moveRows, up to the call of onMoveRows *)

\* mutation: moveRows does not check the last row of the range
moveRowsPreNoEnd(from_parent, from_row, count) ==
    count > 0 /\ validRow(from_row, from_parent)

moveRowsPre(from_parent, from_row, count) ==
    count > 0 /\ validRow(from_row, from_parent)
              /\ validRow(from_row + count - 1, from_parent)

\* mutation: moveRows / moveColumns return what the hook returned
moveResultOk(ok) == ok

\* the value of the return statement of moveRows / moveColumns
moveResult(ok) == FALSE

Frame(op, args, limit) ==
    [op |-> op, args |-> args, sigStart |-> Len(Enter), nested |-> FALSE,
     removes |-> 0, before |-> moving_, limit |-> limit]

MoveRows(from_parent, from_row, count, to_parent, to_row) ==
    LET args == <<from_parent, from_row, count, to_parent, to_row>>
    IN  /\ CanCall
        /\ signals' = Enter
        /\ nestedCalls' = Counted
        /\ IF moveRowsPre(from_parent, from_row, count)
           THEN /\ moving_' = beginMoveRows(moving_)
                /\ stack' = Append(Called(stack),
                                    Frame("moveRows", args, rowCount(from_parent)))
                /\ ret' = NoCall
           ELSE /\ moving_' = moving_
                /\ stack' = Called(stack)
                /\ ret' = [op |-> "moveRows", args |-> args,
                           result |-> moveResult(FALSE), emitted |-> <<>>,
                           hooked |-> FALSE, hookOk |-> FALSE,
                           ctx |-> Ctx(stack), before |-> moving_,
                           after |-> moving_, nested |-> FALSE, removes |-> 0,
                           limit |-> rowCount(from_parent)]
        /\ UNCHANGED <<rows, cols, qstack, qret, crashed>>

(* onMoveRows returns ok; Model::endMoveRows; moveRows returns *)

OnMoveRowsReturn(ok) ==
    /\ ~crashed
    /\ stack # <<>>
    /\ LET f == stack[Len(stack)]
           a == f.args
           rest == SubSeq(stack, 1, Len(stack) - 1)
           sigs == IF ok
                   THEN Append(signals, rowsMoved(a[1], a[2], a[3], a[4], a[5]))
                   ELSE signals
       IN  /\ f.op = "moveRows"
           /\ moving_' = endMoveRowsFlag(moving_)
           /\ signals' = sigs
           /\ stack' = rest
           /\ ret' = [op |-> "moveRows", args |-> a, result |-> moveResult(ok),
                      emitted |-> SubSeq(sigs, f.sigStart + 1, Len(sigs)),
                      hooked |-> TRUE, hookOk |-> ok, ctx |-> Ctx(rest),
                      before |-> f.before, after |-> endMoveRowsFlag(moving_),
                      nested |-> f.nested, removes |-> f.removes,
                      limit |-> f.limit]
    /\ UNCHANGED <<rows, cols, nestedCalls, qstack, qret, crashed>>

-----------------------------------------------------------------------------
(* Model::moveColumns, up to the call of onMoveColumns *)

moveColumnsPre(from_parent, from_column, count) ==
    count > 0 /\ validColumn(from_column, from_parent)
              /\ validColumn(from_column + count - 1, from_parent)

MoveColumns(from_parent, from_column, count, to_parent, to_column) ==
    LET args == <<from_parent, from_column, count, to_parent, to_column>>
    IN  /\ CanCall
        /\ signals' = Enter
        /\ nestedCalls' = Counted
        /\ IF moveColumnsPre(from_parent, from_column, count)
           THEN /\ moving_' = beginMoveColumns(moving_)
                /\ stack' = Append(Called(stack),
                                    Frame("moveColumns", args,
                                          columnCount(from_parent)))
                /\ ret' = NoCall
           ELSE /\ moving_' = moving_
                /\ stack' = Called(stack)
                /\ ret' = [op |-> "moveColumns", args |-> args,
                           result |-> moveResult(FALSE), emitted |-> <<>>,
                           hooked |-> FALSE, hookOk |-> FALSE,
                           ctx |-> Ctx(stack), before |-> moving_,
                           after |-> moving_, nested |-> FALSE, removes |-> 0,
                           limit |-> columnCount(from_parent)]
        /\ UNCHANGED <<rows, cols, qstack, qret, crashed>>

(* onMoveColumns returns ok; Model::endMoveColumns; moveColumns returns *)

OnMoveColumnsReturn(ok) ==
    /\ ~crashed
    /\ stack # <<>>
    /\ LET f == stack[Len(stack)]
           a == f.args
           rest == SubSeq(stack, 1, Len(stack) - 1)
           sigs == IF ok
                   THEN Append(signals, columnsMoved(a[1], a[2], a[3], a[4], a[5]))
                   ELSE signals
       IN  /\ f.op = "moveColumns"
           /\ moving_' = endMoveColumnsFlag(moving_)
           /\ signals' = sigs
           /\ stack' = rest
           /\ ret' = [op |-> "moveColumns", args |-> a, result |-> moveResult(ok),
                      emitted |-> SubSeq(sigs, f.sigStart + 1, Len(sigs)),
                      hooked |-> TRUE, hookOk |-> ok, ctx |-> Ctx(rest),
                      before |-> f.before, after |-> endMoveColumnsFlag(moving_),
                      nested |-> f.nested, removes |-> f.removes,
                      limit |-> f.limit]
    /\ UNCHANGED <<rows, cols, nestedCalls, qstack, qret, crashed>>

-----------------------------------------------------------------------------
(* A slot connected to rowsMoved / columnsMoved.  The emit statement of     *)
(* endMoveRows / endMoveColumns calls the slot before it goes on, so the    *)
(* slot runs inside the moveRows / moveColumns call, after the statement    *)
(* on moving_.                                                              *)

\* onMoveRows has returned true; endMoveRows as far as into the slot
EmitRowsMoved ==
    /\ ~crashed
    /\ stack # <<>>
    /\ LET f == stack[Len(stack)]
           a == f.args
       IN  /\ f.op = "moveRows"
           /\ moving_' = endMoveRowsFlag(moving_)
           /\ signals' = Append(signals, rowsMoved(a[1], a[2], a[3], a[4], a[5]))
           /\ stack' = [stack EXCEPT ![Len(stack)].op = "rowsMoved"]
           /\ ret' = NoCall
    /\ UNCHANGED <<rows, cols, nestedCalls, qstack, qret, crashed>>

\* onMoveColumns has returned true; endMoveColumns as far as into the slot
EmitColumnsMoved ==
    /\ ~crashed
    /\ stack # <<>>
    /\ LET f == stack[Len(stack)]
           a == f.args
       IN  /\ f.op = "moveColumns"
           /\ moving_' = endMoveColumnsFlag(moving_)
           /\ signals' = Append(signals,
                                columnsMoved(a[1], a[2], a[3], a[4], a[5]))
           /\ stack' = [stack EXCEPT ![Len(stack)].op = "columnsMoved"]
           /\ ret' = NoCall
    /\ UNCHANGED <<rows, cols, nestedCalls, qstack, qret, crashed>>

\* the slot returns; endMoveRows (endMoveColumns) and the move call return
SlotReturn ==
    /\ ~crashed
    /\ stack # <<>>
    /\ LET f == stack[Len(stack)]
           rest == SubSeq(stack, 1, Len(stack) - 1)
       IN  /\ f.op \in {"rowsMoved", "columnsMoved"}
           /\ stack' = rest
           /\ ret' = [op |-> IF f.op = "rowsMoved"
                             THEN "moveRows" ELSE "moveColumns",
                      args |-> f.args, result |-> moveResult(TRUE),
                      emitted |-> SubSeq(signals, f.sigStart + 1, Len(signals)),
                      hooked |-> TRUE, hookOk |-> TRUE, ctx |-> Ctx(rest),
                      before |-> f.before, after |-> moving_,
                      nested |-> f.nested, removes |-> f.removes,
                      limit |-> f.limit]
    /\ UNCHANGED <<moving_, rows, cols, signals, nestedCalls, qstack, qret, crashed>>

-----------------------------------------------------------------------------
(* Default hooks of the queries, and the hooks the flat table overrides *)

onValid(index) == TRUE

\* mutation: onRoot returns a default-constructed index
onRootDefault == DefaultIndex

onRoot == createIndex(-1, -1, 0)

onParent(index) == DefaultIndex

\* QVariant()
EmptyVariant == <<>>

\* the flat table stores one value per cell and role
onData(index, role) == <<"cell", index.row, index.column, role>>

-----------------------------------------------------------------------------
(* Arguments of the queries *)

Value == 0
Description == 2

Roles == {Value, Description}

Values == {"x", "y"}

ForeignIndex == Index(0, 0, 0, OtherModel)

Indices ==
    {DefaultIndex, ItemIndex, ForeignIndex, onRoot,
     createIndex(MaxRows + 1, 0, 0)}

-----------------------------------------------------------------------------
(* Model::root *)

Root ==
    /\ ~crashed
    /\ stack = <<>>
    /\ qstack = <<>>
    /\ ret' = [NoCall EXCEPT !.op = "root", !.result = onRoot]
    /\ signals' = <<>>
    /\ UNCHANGED <<moving_, rows, cols, stack, nestedCalls, qstack, qret, crashed>>

-----------------------------------------------------------------------------
(* Model::valid, Model::parent, Model::data, Model::setData.  Each of them *)
(* begins with a call (valid calls parent; parent, data and setData call   *)
(* valid) and goes on when that call has returned.                         *)

QFrame(fn, index, value, role) ==
    [fn |-> fn, index |-> index, value |-> value, role |-> role, pc |-> "entry"]

\* the function a frame calls first
firstCall(fn) == IF fn \in {"valid", "Index::parent"} THEN "parent" ELSE "valid"

\* the application calls one of the four
QCall(fn, index, value, role) ==
    /\ ~crashed
    /\ stack = <<>>
    /\ qstack = <<>>
    /\ qstack' = <<QFrame(fn, index, value, role)>>
    /\ signals' = <<>>
    /\ ret' = NoCall
    /\ UNCHANGED <<moving_, rows, cols, stack, nestedCalls, qret, crashed>>

\* the running function makes its first call
QEnter ==
    /\ ~crashed
    /\ qstack # <<>>
    /\ Len(qstack) < StackLimit
    /\ LET f == qstack[Len(qstack)]
       IN  /\ f.pc = "entry"
           /\ qstack' = Append([qstack EXCEPT ![Len(qstack)].pc = "called"],
                               QFrame(firstCall(f.fn), f.index, f.value, f.role))
    /\ UNCHANGED <<moving_, rows, cols, stack, signals, ret, nestedCalls, qret, crashed>>

\* the rest of valid, once parent(index) has returned par
validBody(index, par) ==
    /\ index.model = ThisModel
    /\ validRow(index.row, par)
    /\ validColumn(index.column, par)
    /\ onValid(index)

\* the rest of parent, once valid(index) has returned v
parentBody(index, v) == IF ~v THEN DefaultIndex ELSE onParent(index)

\* the rest of data, once valid(index) has returned v
dataBody(index, role, v) == IF ~v THEN EmptyVariant ELSE onData(index, role)

dataChanged(index, value, role) ==
    [sig |-> "dataChanged", args |-> <<index, value, role>>]

\* the callee has returned qret: the caller runs to its end and returns
QReturn(accept) ==
    /\ ~crashed
    /\ qstack # <<>>
    /\ LET f == qstack[Len(qstack)]
           rest == SubSeq(qstack, 1, Len(qstack) - 1)
           hooked == f.fn = "setData" /\ qret
           ok == hooked /\ accept
           em == IF ok THEN <<dataChanged(f.index, f.value, f.role)>> ELSE <<>>
           res == CASE f.fn = "valid" -> validBody(f.index, qret)
                    [] f.fn = "parent" -> parentBody(f.index, qret)
                    [] f.fn = "data" -> dataBody(f.index, f.role, qret)
                    [] f.fn = "setData" -> ok
                    [] f.fn = "Index::parent" -> qret
       IN  /\ f.pc = "called"
           /\ ~hooked => ~accept
           /\ qstack' = rest
           /\ qret' = res
           /\ signals' = signals \o em
           /\ ret' = IF rest = <<>>
                     THEN [NoCall EXCEPT !.op = f.fn,
                                         !.args = <<f.index, f.value, f.role>>,
                                         !.result = res, !.emitted = em,
                                         !.hooked = hooked, !.hookOk = ok]
                     ELSE ret
    /\ UNCHANGED <<moving_, rows, cols, stack, nestedCalls, crashed>>

\* The stack is exhausted by the call the running function is about to
\* make.  The behaviour is undefined: the process is terminated, or the
\* call comes back with an unspecified value.
QExhaust(outcome) ==
    /\ ~crashed
    /\ Len(qstack) = StackLimit
    /\ LET f == qstack[Len(qstack)]
       IN  /\ f.pc = "entry"
           /\ IF outcome = "abort"
              THEN /\ crashed' = TRUE
                   /\ UNCHANGED <<qstack, qret>>
              ELSE /\ crashed' = FALSE
                   /\ qstack' = [qstack EXCEPT ![Len(qstack)].pc = "called"]
                   /\ IF f.fn = "valid"
                      THEN qret' \in Indices
                      ELSE qret' \in BOOLEAN
    /\ UNCHANGED <<moving_, rows, cols, stack, signals, ret, nestedCalls>>

-----------------------------------------------------------------------------
(* The model after construction, on a table of any size *)

Init ==
    /\ moving_ = IntToBool(IntOf(Nothing))
    /\ rows \in 0 .. MaxRows
    /\ cols \in 0 .. MaxCols
    /\ stack = <<>>
    /\ signals = <<>>
    /\ ret = NoCall
    /\ qstack = <<>>
    /\ qret = FALSE
    /\ nestedCalls = 0
    /\ crashed = FALSE

\* the calls of the application and of the running hooks
CallRemoveRows ==
    \E a \in RemoveRowsArgs, b \in BOOLEAN : RemoveRows(a[1], a[2], a[3], b)

CallRemoveColumns ==
    \E a \in RemoveColumnsArgs, b \in BOOLEAN : RemoveColumns(a[1], a[2], a[3], b)

CallMoveRows == \E a \in MoveRowsArgs : MoveRows(a[1], a[2], a[3], a[4], a[5])

CallMoveColumns ==
    \E a \in MoveColumnsArgs : MoveColumns(a[1], a[2], a[3], a[4], a[5])

ReturnMoveRows == \E ok \in BOOLEAN : OnMoveRowsReturn(ok)

ReturnMoveColumns == \E ok \in BOOLEAN : OnMoveColumnsReturn(ok)

Next ==
    \/ CallRemoveRows
    \/ CallRemoveColumns
    \/ CallMoveRows
    \/ ReturnMoveRows
    \/ CallMoveColumns
    \/ ReturnMoveColumns

Spec == Init /\ [][Next]_vars

(* Moves made by the application to a destination in or out of range, by *)
(* hooks that call nothing, with a slot connected to the moved signals     *)

AllDests == Dests \cup {<<DefaultIndex, 0>>}

MoveRowsTo ==
    /\ stack = <<>>
    /\ \E fp \in Parents :
          \E r \in RowArgs(fp), n \in CountArgs, d \in AllDests :
              MoveRows(fp, r, n, d[1], d[2])

MoveColumnsTo ==
    /\ stack = <<>>
    /\ \E fp \in Parents :
          \E c \in ColumnArgs(fp), n \in CountArgs, d \in AllDests :
              MoveColumns(fp, c, n, d[1], d[2])

NextM ==
    \/ MoveRowsTo
    \/ MoveColumnsTo
    \/ ReturnMoveRows
    \/ ReturnMoveColumns
    \/ EmitRowsMoved
    \/ EmitColumnsMoved
    \/ CallRemoveRows
    \/ CallRemoveColumns
    \/ SlotReturn

SpecM == Init /\ [][NextM]_vars

-----------------------------------------------------------------------------
(* Model::validRow and Model::validColumn, called by the application *)

AtRest == ~crashed /\ stack = <<>> /\ qstack = <<>>

ValidRow(row, parent) ==
    /\ AtRest
    /\ ret' = [NoCall EXCEPT !.op = "validRow", !.args = <<row, parent>>,
                             !.result = validRow(row, parent),
                             !.limit = rowCount(parent)]
    /\ signals' = <<>>
    /\ UNCHANGED <<moving_, rows, cols, stack, nestedCalls, qstack, qret, crashed>>

ValidColumn(column, parent) ==
    /\ AtRest
    /\ ret' = [NoCall EXCEPT !.op = "validColumn", !.args = <<column, parent>>,
                             !.result = validColumn(column, parent),
                             !.limit = columnCount(parent)]
    /\ signals' = <<>>
    /\ UNCHANGED <<moving_, rows, cols, stack, nestedCalls, qstack, qret, crashed>>

-----------------------------------------------------------------------------
(* Model::index, with the default onIndex *)

onIndex(row, column, parent) == createIndex(row, column, 0)

\* mutation: index does not check the column
indexPreRowOnly(row, column, parent) == validRow(row, parent)

indexPre(row, column, parent) ==
    validRow(row, parent) /\ validColumn(column, parent)

\* the value index(row, column, parent) returns
indexResult(row, column, parent) ==
    IF indexPre(row, column, parent)
    THEN onIndex(row, column, parent)
    ELSE DefaultIndex

GetIndex(row, column, parent) ==
    /\ AtRest
    /\ ret' = [NoCall EXCEPT !.op = "index", !.args = <<row, column, parent>>,
                             !.result = indexResult(row, column, parent),
                             !.hooked = indexPre(row, column, parent),
                             !.limit = <<rowCount(parent), columnCount(parent)>>]
    /\ signals' = <<>>
    /\ UNCHANGED <<moving_, rows, cols, stack, nestedCalls, qstack, qret, crashed>>

-----------------------------------------------------------------------------
(* Index::parent, on an index the application holds *)

IndexParent(index) ==
    /\ AtRest
    /\ signals' = <<>>
    /\ IF index.model = NullModel
       THEN /\ ret' = [NoCall EXCEPT !.op = "Index::parent",
                                     !.args = <<index, "x", Value>>,
                                     !.result = DefaultIndex]
            /\ qstack' = qstack
       ELSE /\ ret' = NoCall
            /\ qstack' = <<QFrame("Index::parent", index, "x", Value)>>
    /\ UNCHANGED <<moving_, rows, cols, stack, nestedCalls, qret, crashed>>

-----------------------------------------------------------------------------
(* The queries of a model at rest *)

CallValid == \E i \in Indices : QCall("valid", i, "x", Value)

CallParent == \E i \in Indices : QCall("parent", i, "x", Value)

CallData == \E i \in Indices, r \in Roles : QCall("data", i, "x", r)

CallSetData ==
    \E i \in Indices, v \in Values, r \in Roles : QCall("setData", i, v, r)

CallValidRow == \E p \in Parents : \E r \in RowArgs(p) : ValidRow(r, p)

CallValidColumn == \E p \in Parents : \E c \in ColumnArgs(p) : ValidColumn(c, p)

CallIndex ==
    \E p \in Parents : \E r \in RowArgs(p), c \in ColumnArgs(p) : GetIndex(r, c, p)

\* index(r, c).parent(), for a cell of the table or for any other r and c
CallIndexParent ==
    \E r \in RowArgs(DefaultIndex), c \in ColumnArgs(DefaultIndex) :
        IndexParent(indexResult(r, c, DefaultIndex))

Return == \E accept \in BOOLEAN : QReturn(accept)

Exhaust == \E outcome \in {"abort", "return"} : QExhaust(outcome)

NextQ ==
    \/ Root
    \/ CallValid
    \/ CallParent
    \/ CallData
    \/ CallSetData
    \/ CallValidRow
    \/ CallValidColumn
    \/ CallIndex
    \/ CallIndexParent
    \/ QEnter
    \/ Return
    \/ Exhaust

SpecQ == Init /\ [][NextQ]_vars

-----------------------------------------------------------------------------
(* Properties *)

Idle == IntToBool(IntOf(Nothing))

\* the call that returned last was made from inside a hook of op
InCtx(op) == \E i \in 1 .. Len(ret.ctx) : ret.ctx[i] = op

\* the call that returned last was made by the running hook of op
ByHookOf(op) == ret.ctx # <<>> /\ ret.ctx[Len(ret.ctx)] = op

\* r is a valid row (column) of a parent that had limit rows (columns) when
\* the call was made
InRange(r, limit) == 0 <= r /\ r <= limit

\* the notification an observer expects: the signal with the call's arguments
Notified(sig, args) == [sig |-> sig, args |-> args]

RowSignals(sigs) ==
    SelectSeq(sigs, LAMBDA e : e.sig \in {"rowsMoved", "rowsRemoved", "rowsAdded"})

\* C1: a removeRows call made by the application (no call in progress, so
\* no row-move in progress), after any completed calls, whose preconditions
\* pass and whose hook accepts, raises exactly one rowsRemoved carrying
\* (row, count, parent) and returns true.
C1_RemoveRowsNotifies ==
    (ret.op = "removeRows" /\ ret.ctx = <<>> /\ ret.hooked /\ ret.hookOk)
        => /\ ret.result = TRUE
           /\ ret.emitted = <<Notified("rowsRemoved", ret.args)>>

\* C2: a successful removeColumns made from inside an onMoveColumns hook
\* raises no columnsRemoved; one made while no column-move is in progress
\* raises exactly one columnsRemoved(column, count, parent).
C2_RemoveColumnsSuppressed ==
    (ret.op = "removeColumns" /\ ret.hooked /\ ret.hookOk)
        => IF InCtx("moveColumns")
           THEN ret.emitted = <<>>
           ELSE ret.emitted = <<Notified("columnsRemoved", ret.args)>>

\* C3: whenever no public call is in progress the moving flag is Idle: every
\* outermost moveRows / moveColumns call that has returned has put it back.
C3_IdleBetweenCalls == stack = <<>> => moving_ = Idle

\* C4: a moveRows call whose source range is valid and whose hook returns
\* true, the hook calling removeRows / removeColumns but no move, raises
\* exactly one rowsMoved, carrying the five arguments of the call, and no
\* rowsRemoved or rowsAdded between its start and its end.
C4_MoveRowsNotifiesOnce ==
    (ret.op = "moveRows" /\ ret.hooked /\ ret.hookOk /\ ~ret.nested)
        => RowSignals(ret.emitted) = <<Notified("rowsMoved", ret.args)>>

\* a moveRows call has returned whose hook removed rows and returned true
C4_Witness ==
    /\ ret.op = "moveRows" /\ ret.hooked /\ ret.hookOk /\ ~ret.nested
    /\ ret.removes > 0
    /\ ret.args[1] # ret.args[4]

\* C5: a removeRows call that succeeds inside an onMoveRows hook which has
\* made no move call raises no rowsRemoved and returns true.
C5_RemoveRowsSuppressed ==
    (ret.op = "removeRows" /\ ret.hooked /\ ret.hookOk
        /\ ByHookOf("moveRows") /\ ~ret.nested)
        => ret.emitted = <<>> /\ ret.result = TRUE

\* an accepted removeRows has returned to an onMoveRows hook
C5_Witness ==
    /\ ret.op = "removeRows" /\ ret.hooked /\ ret.hookOk
    /\ ByHookOf("moveRows") /\ ~ret.nested
    /\ stack # <<>> /\ stack[Len(stack)].op = "moveRows"

\* C6: every valid / parent / data / setData call runs to completion and
\* returns a value: none is cut short by the exhaustion of the stack.
C6_QueriesReturn == ~crashed

\* C7: for every index whose owning model is not this model (the default
\* index included), valid(index) returns, and returns false.
C7_ForeignNeverValid ==
    /\ (ret.op = "valid" /\ ret.args[1].model # ThisModel) => ret.result = FALSE
    /\ (qstack # <<>> /\ qstack[1].fn = "valid"
            /\ qstack[1].index.model # ThisModel) => ~crashed

\* C8: with the default onRoot, root() is equal to a default-constructed
\* index (row -1, column -1, id 0, no model).
C8_RootIsDefault == ret.op = "root" => IndexEq(ret.result, DefaultIndex)

\* C8 (amended): with the default onRoot, root() has row -1, column -1 and
\* id 0 and belongs to this model, so it is not equal to a
\* default-constructed index.
C8_RootBelongsToModel ==
    ret.op = "root"
        => /\ ret.result.row = -1 /\ ret.result.column = -1
           /\ ret.result.id = 0 /\ ret.result.model = ThisModel
           /\ ~IndexEq(ret.result, DefaultIndex)

\* root() has returned
C8_Witness == ret.op = "root" /\ ret.result.model # NullModel

C10_RemoveRowsFails ==
    ret.op = "removeRows" =>
        LET row == ret.args[1]
            count == ret.args[2]
            parent == ret.args[3]
            bad == \/ count <= 0
                   \/ ~InRange(row, ret.limit)
                   \/ ~InRange(row + count - 1, ret.limit)
            failed == /\ ret.result = FALSE /\ ret.emitted = <<>>
                      /\ ret.after = ret.before /\ moving_ = ret.before
        IN  /\ bad => (~ret.hooked /\ failed)
            /\ (ret.hooked /\ ~ret.hookOk) => failed

\* a removeRows call has returned whose range starts at a valid row and ends
\* past the last valid one, made while the moving flag was set
C10_Witness ==
    /\ ret.op = "removeRows" /\ ret.before
    /\ ret.args[2] > 0
    /\ InRange(ret.args[1], ret.limit)
    /\ ~InRange(ret.args[1] + ret.args[2] - 1, ret.limit)

-----------------------------------------------------------------------------
\* C11: a moveRows (moveColumns) call made by the application whose hook
\* reported failure raises no rowsMoved (columnsMoved), and the moving flag
\* is cleared when the call returns, so that later removals notify again
C11_FailedMoveClearsFlag ==
    (/\ ret.op \in {"moveRows", "moveColumns"}
     /\ ret.ctx = <<>>
     /\ ret.hooked
     /\ ~ret.hookOk)
    => /\ \A i \in 1 .. Len(ret.emitted) :
              ret.emitted[i].sig \notin {"rowsMoved", "columnsMoved"}
       /\ ret.after = Idle
       /\ moving_ = Idle

-----------------------------------------------------------------------------
\* index is not a valid index of the flat table (every index has the root as
\* its parent)
NotValid(index) ==
    \/ index.model # ThisModel
    \/ ~InRange(index.row, rows)
    \/ ~InRange(index.column, cols)

\* C12: setData on an index that is not valid returns false without calling
\* onSetData and without raising dataChanged; dataChanged is raised only by
\* a setData call that returns true, with that call's index, value and role
C12_SetDataRejectsInvalid ==
    /\ (qstack # <<>> /\ qstack[1].fn = "setData" /\ NotValid(qstack[1].index))
       => ~crashed
    /\ (ret.op = "setData" /\ NotValid(ret.args[1]))
       => (ret.result = FALSE /\ ~ret.hooked /\ ret.emitted = <<>>)
    /\ \A i \in 1 .. Len(signals) :
          signals[i].sig = "dataChanged"
          => /\ ret.op = "setData"
             /\ ret.result = TRUE
             /\ signals[i] = Notified("dataChanged", ret.args)

-----------------------------------------------------------------------------
\* C13: validRow(r, parent) is true exactly when 0 <= r <= rowCount(parent),
\* so r = rowCount(parent) is accepted and -1 and rowCount(parent) + 1 are
\* rejected; validColumn is the same against columnCount(parent)
C13_ValidRowInclusive ==
    ret.op \in {"validRow", "validColumn"}
    => /\ ret.result <=> (0 <= ret.args[1] /\ ret.args[1] <= ret.limit)
       /\ ret.args[1] = ret.limit => ret.result = TRUE
       /\ ret.args[1] = ret.limit + 1 => ret.result = FALSE
       /\ ret.args[1] = -1 => ret.result = FALSE

\* validRow has accepted the row after the last one of a table with rows
C13_Witness ==
    /\ ret.op = "validRow"
    /\ ret.limit > 0
    /\ ret.args[1] = ret.limit
    /\ ret.result = TRUE

\* C14: index(row, column, parent) returns a default-constructed index and
\* does not call onIndex when the row or the column is not valid; otherwise
\* it returns what onIndex returns, by default an index of this model with
\* the given row and column
C14_IndexChecksRowAndColumn ==
    ret.op = "index"
    => IF InRange(ret.args[1], ret.limit[1]) /\ InRange(ret.args[2], ret.limit[2])
       THEN /\ ret.hooked
            /\ ret.result.model = ThisModel
            /\ ret.result.row = ret.args[1]
            /\ ret.result.column = ret.args[2]
       ELSE /\ ~ret.hooked
            /\ IndexEq(ret.result, DefaultIndex)

\* index has rejected a valid row with a column that is not valid
C14_Witness ==
    /\ ret.op = "index"
    /\ InRange(ret.args[1], ret.limit[1])
    /\ ret.args[2] = ret.limit[2] + 1
    /\ ~ret.hooked
    /\ IndexEq(ret.result, DefaultIndex)

-----------------------------------------------------------------------------
\* C15: with hooks that agree with each other (the default onIndex and
\* onParent agree on the children of the root), index(row, column, P).parent()
\* returns P for every valid row and column of P
C15_IndexParentRoundTrip ==
    /\ (/\ qstack # <<>>
        /\ qstack[1].fn = "Index::parent"
        /\ ~NotValid(qstack[1].index))
       => ~crashed
    /\ (ret.op = "Index::parent" /\ ~NotValid(ret.args[1]))
       => IndexEq(ret.result, DefaultIndex)

-----------------------------------------------------------------------------
\* the source range (first, count) lies within 0 .. limit and is not empty
SourceOk(first, count, limit) ==
    count > 0 /\ InRange(first, limit) /\ InRange(first + count - 1, limit)

\* C16: moveRows calls onMoveRows, with the flag set before the hook runs
\* and cleared after it has returned, exactly when count > 0 and from_row and
\* from_row + count - 1 are valid rows of from_parent, whatever to_parent and
\* to_row are; otherwise the hook is not called, the flag is not touched and
\* nothing is notified
C16_MoveRowsSourceOnly ==
    /\ ret.op = "moveRows"
       => /\ ret.hooked <=> SourceOk(ret.args[2], ret.args[3], ret.limit)
          /\ ret.hooked => ret.after = Idle
          /\ ~ret.hooked => /\ ret.emitted = <<>>
                            /\ ret.after = ret.before
                            /\ moving_ = ret.before
    /\ \A i \in 1 .. Len(stack) :
          stack[i].op = "moveRows"
          => /\ SourceOk(stack[i].args[2], stack[i].args[3], stack[i].limit)
             /\ moving_ = TRUE

\* onMoveRows is running for a move to a row that is not a valid row of the
\* destination
C16_Witness ==
    /\ stack # <<>>
    /\ stack[1].op = "moveRows"
    /\ ~InRange(stack[1].args[5], rowCount(stack[1].args[4]))
    /\ moving_ = TRUE

-----------------------------------------------------------------------------
\* every row (column) of first .. first + count - 1 is valid under limit
AllInRange(first, count, limit) ==
    count > 0 /\ \A r \in first .. (first + count - 1) : InRange(r, limit)

\* C17: whenever onRemoveRows, onRemoveColumns, onMoveRows or onMoveColumns
\* is called, count > 0 and every row (column) of the range it is given, the
\* source range for a move, is a valid row (column) of the parent
C17_HooksGetCheckedRanges ==
    /\ (ret.op \in {"removeRows", "removeColumns"} /\ ret.hooked)
       => AllInRange(ret.args[1], ret.args[2], ret.limit)
    /\ (ret.op \in {"moveRows", "moveColumns"} /\ ret.hooked)
       => AllInRange(ret.args[2], ret.args[3], ret.limit)
    /\ \A i \in 1 .. Len(stack) :
          AllInRange(stack[i].args[2], stack[i].args[3], stack[i].limit)

\* onRemoveRows has been called with a range of three rows, the middle one
\* checked by neither test of removeRows
C17_Witness ==
    /\ ret.op = "removeRows"
    /\ ret.hooked
    /\ ret.args[2] >= 3

-----------------------------------------------------------------------------
\* C18: the flag stays set from the beginMoveRows of the outermost moveRows
\* to its endMoveRows, so a successful removeRows made by the outermost
\* onMoveRows hook after a moveRows it called itself has returned raises no
\* rowsRemoved
C18_OuterMoveSuppresses ==
    /\ (stack # <<>> /\ stack[1].op = "moveRows") => moving_ = TRUE
    /\ (/\ ret.op = "removeRows"
        /\ ret.hookOk
        /\ ret.ctx = <<"moveRows">>
        /\ ret.nested)
       => ret.emitted = <<>>

-----------------------------------------------------------------------------
=============================================================================
